---- MODULE Spec2Model ----
(***************************************************************************)
(* carl/ratios/cc.py: WrapAsClassifier and CalibratedClassifierRatio.      *)
(*                                                                         *)
(* Objects are identified by natural numbers.  Every constructor call and  *)
(* every clone() draws an identity no live object has, so "fresh", "the    *)
(* same object" and "a clone" are distinguishable.  Sample sets are indexed*)
(* 1..n; a fitted model records the index set it was fitted on.            *)
(* Densities returned by calibrators are powers of two, pdf = 2^e and      *)
(* nnlf = -e, and predict's result is an exact rational <<num, den>>.      *)
(***************************************************************************)
EXTENDS FiniteSets, Integers, Sequences, TLC

\* ----------------------------------------------------------------- bounds
MaxSamples == 3      \* largest sample set / n_samples
MaxFolds   == 2      \* largest integer cv
MaxExp     == 1      \* calibrator densities range over 2^0 .. 2^MaxExp
MaxLabel   == 3      \* raw labels handed to WrapAsClassifier.fit: 0..MaxLabel

\* ------------------------------------------------- configured objects
BaseId      == 1     \* the object passed as base_estimator
TemplateId  == 2     \* the object passed as calibration (when not a tag)
Prefit      == 0     \* the value of cv that stands for cv == "prefit"

ArgNames == {"X", "y", "numerator", "denominator", "n_samples"}

VARIABLES
    params,          \* constructor arguments: [cv, base, calibration];
                     \* cv is Prefit or the number of folds
    has_ensemble,    \* the attributes classifiers_ / calibrators_ exist
    classifiers_,    \* CalibratedClassifierRatio.classifiers_
    calibrators_,    \* CalibratedClassifierRatio.calibrators_
    XY,              \* the sample set (X, y) the latest fit worked on
    folds,           \* the (train, calibrate) pairs the latest fit consumed
    wrap,            \* a stand-alone WrapAsClassifier: [classes_, regressor_]
    last             \* the latest call: operation, arguments, outcome, and
                     \* the objects it made (made) and fitted (fitted)

vars == <<params, has_ensemble, classifiers_, calibrators_, XY, folds,
          wrap, last>>

\* ---------------------------------------------------------------- helpers
Range(s) == {s[i] : i \in 1..Len(s)}

Min(S) == CHOOSE m \in S : \A x \in S : m <= x

RECURSIVE SortedSeq(_)
SortedSeq(S) == IF S = {} THEN <<>> ELSE <<Min(S)>> \o SortedSeq(S \ {Min(S)})

RECURSIVE Pow2(_)
Pow2(e) == IF e <= 0 THEN 1 ELSE 2 * Pow2(e - 1)

RECURSIVE Pow(_, _)
Pow(b, e) == IF e <= 0 THEN 1 ELSE b * Pow(b, e - 1)

Abs(x) == IF x < 0 THEN -x ELSE x

RECURSIVE Gcd(_, _)
Gcd(a, b) == IF b = 0 THEN a ELSE Gcd(b, a % b)

\* exact rationals <<n, d>>, d > 0, in lowest terms
Rat(n, d) == LET g == Gcd(Abs(n), d) IN <<n \div g, d \div g>>
RAdd(a, b) == Rat(a[1] * b[2] + b[1] * a[2], a[2] * b[2])
RDivInt(a, k) == Rat(a[1], a[2] * k)

\* the rows of y selected by the index set idx, in index order (y[idx])
Take(y, idx) == LET s == SortedSeq(idx) IN [j \in 1..Len(s) |-> y[s[j]]]

NoCall == [op |-> "none", err |-> "none", at |-> "none", has |-> {},
           log |-> FALSE, value |-> <<0, 1>>, labels |-> {},
           made |-> 0, fitted |-> {}]

Max(S) == CHOOSE m \in S : \A x \in S : m >= x

\* the identities of the objects an ensemble holds
ObjectIds(cls, cals) ==
    UNION {{cls[i].id, cls[i].regressor, cls[i].regressor_} : i \in 1..Len(cls)}
    \cup UNION {{cals[i][1].id, cals[i][2].id} : i \in 1..Len(cals)}

\* an identity from which on no live object has one
FreshFrom(live) == Max(live \cup {BaseId, TemplateId}) + 1

\* the least identity no live object has
FreshId(live) ==
    Min({i \in 1..FreshFrom(live) : i \notin live \cup {BaseId, TemplateId}})

\* ------------------------------------------------------- WrapAsClassifier
\* LabelEncoder().fit_transform(y): classes_ is the sorted distinct labels
LabelEncoderClasses(y) == SortedSeq(Range(y))

CardinalityOK_AtLeastTwo(classes) == Len(classes) >= 2

\* line 39: the label set must have exactly two members
CardinalityOK(classes) == Len(classes) = 2

\* WrapAsClassifier.fit on the adapter state w = [classes_, regressor_]
\* with labels y; regfail: the cloned regressor's fit raises.
\* Result: the adapter state, identities used, fits made, the error.
WrapFit(w, y, nid, regfail) ==
    LET classes == LabelEncoderClasses(y) IN
    IF Len(y) = 0 THEN
        [w |-> w, nid |-> nid, fitted |-> {}, err |-> "ValueError", at |-> "check_X_y"]
    ELSE IF ~CardinalityOK(classes) THEN
        [w |-> w, nid |-> nid, fitted |-> {}, err |-> "ValueError", at |-> "cardinality"]
    ELSE IF regfail THEN
        [w |-> [w EXCEPT !.classes_ = classes], nid |-> nid + 1,
         fitted |-> {nid}, err |-> "FitError", at |-> "regressor.fit"]
    ELSE
        [w |-> [classes_ |-> classes, regressor_ |-> nid], nid |-> nid + 1,
         fitted |-> {nid}, err |-> "none", at |-> "none"]

\* ------------------------------------------ CalibratedClassifierRatio.fit
InputMode_XOnly(has) ==
    IF "X" \in has THEN "direct"
    ELSE IF {"numerator", "denominator", "n_samples"} \subseteq has THEN "generative"
    ELSE "none"

\* lines 89-98: which input mode the arguments select
InputMode(has) ==
    IF "X" \in has /\ "y" \in has THEN "direct"
    ELSE IF {"numerator", "denominator", "n_samples"} \subseteq has THEN "generative"
    ELSE "none"

\* dist.rvs(k): k rows, tagged with the distribution they were drawn from
Rvs(dist, k) == [j \in 1..k |-> dist]

\* lines 93-94
GenerativeX(n) == Rvs("numerator", n \div 2) \o Rvs("denominator", n \div 2)

\* lines 95-96
GenerativeY(n) == [j \in 1..n |-> IF j > n \div 2 THEN 1 ELSE 0]

DirectX(y) == [j \in 1..Len(y) |-> "given"]

InitialList_Keep(old) == old

\* lines 100-101: self.classifiers_ = [] ; self.calibrators_ = []
InitialList(old) == <<>>

\* lines 103-105: the base model every path downstream sees
ResolveBase(nid) ==
    IF params.base = "regressor"
    THEN [c |-> [id |-> nid, kind |-> "wrapper", trainedOn |-> {},
                 regressor |-> BaseId, classes_ |-> <<>>, regressor_ |-> 0],
          nid |-> nid + 1]
    ELSE [c |-> [id |-> BaseId, kind |-> "classifier", trainedOn |-> {},
                 regressor |-> 0, classes_ |-> <<>>, regressor_ |-> 0],
          nid |-> nid]

CloneClassifier_Shared(c, nid) == [c |-> c, nid |-> nid]

\* line 123: clone(base_estimator); cloning a wrapper clones its regressor
CloneClassifier(c, nid) ==
    IF c.kind = "wrapper"
    THEN [c |-> [c EXCEPT !.id = nid, !.regressor = nid + 1, !.trainedOn = {},
                          !.classes_ = <<>>, !.regressor_ = 0],
          nid |-> nid + 2]
    ELSE [c |-> [c EXCEPT !.id = nid, !.trainedOn = {}], nid |-> nid + 1]

\* lines 74-85: a fresh pair of calibrators
CheckCalibration(nid) ==
    LET kind == IF params.calibration \in {"kde", "histogram"}
                THEN params.calibration ELSE "clone"
    IN [num |-> [id |-> nid, kind |-> kind, fitOn |-> {}],
        den |-> [id |-> nid + 1, kind |-> kind, fitOn |-> {}],
        nid |-> nid + 2]

\* the fold splitter check_cv(k).split: k contiguous folds over 1..n,
\* the first n % k one sample larger; train is the complement of calibrate
FoldStart(n, k, i) == (i - 1) * (n \div k) + (IF i - 1 < n % k THEN i - 1 ELSE n % k)
KFold(n, k) ==
    [i \in 1..k |->
        LET cal == {j \in 1..n : FoldStart(n, k, i) < j /\ j <= FoldStart(n, k, i + 1)}
        IN [train |-> (1..n) \ cal, calibrate |-> cal]]

CalibrationRows_Train(fold) == fold.train

\* lines 127-128: the rows the calibrators see
CalibrationRows(fold) == fold.calibrate

\* line 124 classifier.fit(X[train], y[train])
ClassifierFit(c, train, y, nid) ==
    IF c.kind = "wrapper"
    THEN LET r == WrapFit([classes_ |-> c.classes_, regressor_ |-> c.regressor_],
                          Take(y, train), nid, FALSE)
         IN [c |-> [c EXCEPT !.classes_ = r.w.classes_, !.regressor_ = r.w.regressor_,
                             !.trainedOn = IF r.err = "none" THEN train ELSE @],
             nid |-> r.nid, fitted |-> {c.id} \cup r.fitted, err |-> r.err, at |-> r.at]
    ELSE [c |-> [c EXCEPT !.trainedOn = train], nid |-> nid,
          fitted |-> {c.id}, err |-> "none", at |-> "none"]

\* classifier.predict_proba: a wrapper needs its regressor_ (line 57)
PredictProbaError(c) ==
    IF c.kind = "wrapper" /\ c.regressor_ = 0 THEN "AttributeError" ELSE "none"

\* the outcome of one fold, lines 123-135; st is the state of the call so far
FoldStep(st, i, fold, y, fail, base) ==
    LET cl   == CloneClassifier(base, st.nid)
        ft   == ClassifierFit(cl.c, fold.train, y, cl.nid)
        cc   == CheckCalibration(ft.nid)
        rows == CalibrationRows(fold)
        num  == [cc.num EXCEPT !.fitOn = {j \in rows : y[j] = 0}]
        den  == [cc.den EXCEPT !.fitOn = {j \in rows : y[j] = 1}]
    IN
    IF fail = <<"clf_fit", i>> THEN
        [st EXCEPT !.nid = cl.nid, !.fitted = @ \cup {cl.c.id},
                   !.err = "FitError", !.at = "classifier.fit"]
    ELSE IF ft.err # "none" THEN
        [st EXCEPT !.nid = ft.nid, !.fitted = @ \cup ft.fitted,
                   !.err = ft.err, !.at = ft.at]
    ELSE IF fail = <<"proba", i>> THEN
        [st EXCEPT !.nid = cc.nid, !.fitted = @ \cup ft.fitted,
                   !.err = "PredictError", !.at = "predict_proba"]
    ELSE IF PredictProbaError(ft.c) # "none" THEN
        [st EXCEPT !.nid = cc.nid, !.fitted = @ \cup ft.fitted,
                   !.err = PredictProbaError(ft.c), !.at = "predict_proba"]
    ELSE IF fail = <<"cal_fit", i>> THEN
        [st EXCEPT !.nid = cc.nid, !.fitted = @ \cup ft.fitted \cup {num.id},
                   !.err = "FitError", !.at = "calibrator.fit"]
    ELSE
        [st EXCEPT !.cls = Append(@, ft.c), !.cals = Append(@, <<num, den>>),
                   !.nid = cc.nid, !.fitted = @ \cup ft.fitted \cup {num.id, den.id}]

\* the loop of line 122 from fold i on; the splitter may raise when asked
\* for fold i
RECURSIVE FitFolds(_, _, _, _, _, _)
FitFolds(st, i, fs, y, fail, base) ==
    IF i > Len(fs) THEN st
    ELSE IF fail = <<"split", i>> THEN
        [st EXCEPT !.err = "SplitError", !.at = "cv.split"]
    ELSE LET s2 == FoldStep([st EXCEPT !.folds = Append(@, fs[i])],
                            i, fs[i], y, fail, base)
         IN IF s2.err # "none" THEN s2 ELSE FitFolds(s2, i + 1, fs, y, fail, base)

\* lines 107-117: cv == "prefit"
FitPrefit(st, X, y, fail, base) ==
    LET cc  == CheckCalibration(st.nid)
        num == [cc.num EXCEPT !.fitOn = {j \in 1..Len(y) : y[j] = 0}]
        den == [cc.den EXCEPT !.fitOn = {j \in 1..Len(y) : y[j] = 1}]
    IN
    IF Len(X) # Len(y) THEN
        [st EXCEPT !.nid = cc.nid, !.err = "IndexError", !.at = "X[y == label]"]
    ELSE IF fail = <<"proba", 1>> THEN
        [st EXCEPT !.nid = cc.nid, !.err = "PredictError", !.at = "predict_proba"]
    ELSE IF PredictProbaError(base) # "none" THEN
        [st EXCEPT !.nid = cc.nid, !.err = PredictProbaError(base),
                   !.at = "predict_proba"]
    ELSE IF fail = <<"cal_fit", 1>> THEN
        [st EXCEPT !.nid = cc.nid, !.fitted = @ \cup {num.id},
                   !.err = "FitError", !.at = "calibrator.fit"]
    ELSE
        [st EXCEPT !.cls = Append(@, base), !.cals = Append(@, <<num, den>>),
                   !.nid = cc.nid, !.fitted = @ \cup {num.id, den.id}]

\* lines 119-135: cross-validated fitting.  cv.split raises at once when X
\* and y disagree in length or there are fewer samples than folds.
FitCV(st, X, y, fail, base) ==
    IF Len(X) # Len(y) \/ params.cv > Len(y) THEN
        [st EXCEPT !.err = "ValueError", !.at = "cv.split"]
    ELSE FitFolds(st, 1, KFold(Len(y), params.cv), y, fail, base)

\* lines 100-137, from the sample set (X, y) on
FitBody(X, y, fail) ==
    LET cls0 == InitialList(classifiers_)
        cals0 == InitialList(calibrators_)
        first == FreshFrom(ObjectIds(cls0, cals0))
        rb  == ResolveBase(first)
        st0 == [cls |-> cls0, cals |-> cals0, first |-> first,
                nid |-> rb.nid, fitted |-> {}, folds |-> <<>>,
                err |-> "none", at |-> "none"]
    IN IF params.cv = Prefit THEN FitPrefit(st0, X, y, fail, rb.c)
       ELSE FitCV(st0, X, y, fail, rb.c)

\* CalibratedClassifierRatio.fit, lines 87-137.  has: the arguments that are
\* not None; yv: the labels given in direct mode; n: n_samples; fail: the
\* place where a collaborator raises, <<"none", 0>> for nowhere.
Fit(has, yv, n, fail) ==
    LET mode == InputMode(has) IN
    /\ UNCHANGED <<params, wrap>>
    /\ IF mode = "none" THEN
          /\ last' = [NoCall EXCEPT !.op = "fit", !.err = "ValueError",
                                    !.at = "args", !.has = has]
          /\ UNCHANGED <<has_ensemble, classifiers_, calibrators_, XY, folds>>
       ELSE
          \E X \in {IF mode = "direct" THEN DirectX(yv) ELSE GenerativeX(n)},
             y \in {IF mode = "direct" THEN yv ELSE GenerativeY(n)} :
          \E r \in {FitBody(X, y, fail)} :
             /\ XY' = [mode |-> mode, X |-> X, y |-> y,
                       n_samples |-> IF mode = "direct" THEN 0 ELSE n]
             /\ has_ensemble' = TRUE
             /\ classifiers_' = r.cls
             /\ calibrators_' = r.cals
             /\ folds' = r.folds
             /\ last' = [NoCall EXCEPT !.op = "fit", !.err = r.err, !.at = r.at,
                                       !.has = has, !.made = r.nid - r.first,
                                       !.fitted = r.fitted]

\* -------------------------------------- CalibratedClassifierRatio.predict
\* a calibrator whose density at the queried score is 2^e
Pdf(e) == Pow2(e)
Nnlf(e) == -e

LogContribution_SignSlip(d) == <<Nnlf(d[1]) + Nnlf(d[2]), 1>>

\* line 148: -calibrator_num.nnlf(p) + calibrator_den.nnlf(p)
LogContribution(d) == <<-Nnlf(d[1]) + Nnlf(d[2]), 1>>

\* line 150: calibrator_num.pdf(p) / calibrator_den.pdf(p)
PdfContribution(d) == Rat(Pdf(d[1]), Pdf(d[2]))

\* lines 140-150: r after the entries i..k have been added
RECURSIVE SumContributions(_, _, _, _)
SumContributions(log, dens, i, k) ==
    IF i > k THEN <<0, 1>>
    ELSE RAdd(IF log THEN LogContribution(dens[i]) ELSE PdfContribution(dens[i]),
              SumContributions(log, dens, i + 1, k))

\* line 152: r / len(self.classifiers_); a float array divided by 0 is nan,
\* written <<0, 0>>
PredictValue(cls, cals, log, dens) ==
    LET k == IF Len(cls) < Len(cals) THEN Len(cls) ELSE Len(cals)   \* zip
    IN IF Len(cls) = 0 THEN <<0, 0>>
       ELSE RDivInt(SumContributions(log, dens, 1, k), Len(cls))

\* the densities <<e_num, e_den>> the k entries' calibrators may give
DensTables(k) == [1..k -> (0..MaxExp) \X (0..MaxExp)]

EnsembleAfterPredict_Consume(cls) == IF Len(cls) = 0 THEN cls ELSE Tail(cls)

\* predict only reads the ensemble
EnsembleAfterPredict(cls) == cls

\* CalibratedClassifierRatio.predict, lines 139-152, for one query point;
\* dens[i] = the exponents of entry i's two calibrator densities at the
\* point's score
PredictCall(log, dens) ==
    /\ classifiers_' = EnsembleAfterPredict(classifiers_)
    /\ calibrators_' = EnsembleAfterPredict(calibrators_)
    /\ UNCHANGED <<params, has_ensemble, XY, folds, wrap>>
    /\ IF ~has_ensemble
       THEN last' = [NoCall EXCEPT !.op = "predict", !.err = "AttributeError",
                                   !.at = "self.classifiers_", !.log = log]
       ELSE last' = [NoCall EXCEPT !.op = "predict", !.log = log,
                                   !.value = PredictValue(classifiers_, calibrators_,
                                                          log, dens)]

\* CalibratedClassifierRatio.score, lines 154-155
ScoreCall ==
    /\ last' = [NoCall EXCEPT !.op = "score", !.err = "NotImplementedError",
                              !.at = "score"]
    /\ UNCHANGED <<params, has_ensemble, classifiers_, calibrators_, XY, folds, wrap>>

\* ------------------------------------------------ stand-alone adapter
\* WrapAsClassifier.fit, lines 31-47, on the stand-alone adapter
WrapFitCall(y, regfail) ==
    LET first == FreshId({wrap.regressor_})
        r == WrapFit(wrap, y, first, regfail)
    IN
    /\ wrap' = r.w
    /\ last' = [NoCall EXCEPT !.op = "wrap.fit", !.err = r.err, !.at = r.at,
                              !.labels = Range(y),
                              !.made = r.nid - first, !.fitted = r.fitted]
    /\ UNCHANGED <<params, has_ensemble, classifiers_, calibrators_, XY, folds>>

\* WrapAsClassifier.predict_proba, lines 54-63: needs regressor_
WrapPredictProbaCall ==
    /\ last' = [NoCall EXCEPT !.op = "wrap.predict_proba",
                   !.err = IF wrap.regressor_ = 0 THEN "AttributeError" ELSE "none",
                   !.at = IF wrap.regressor_ = 0 THEN "self.regressor_" ELSE "none"]
    /\ UNCHANGED <<params, has_ensemble, classifiers_, calibrators_, XY, folds, wrap>>

\* ------------------------------------------------------------ inputs
RECURSIVE SeqsUpTo(_, _)
SeqsUpTo(S, n) == IF n = 0 THEN {<<>>} ELSE SeqsUpTo(S, n - 1) \cup [1..n -> S]

\* label vectors of direct mode: 2..MaxSamples rows, both labels present
DirectYs == {y \in SeqsUpTo({0, 1}, MaxSamples) : Range(y) = {0, 1}}

\* the label vector 0, 1, 0, 1, ... of n rows
AlternatingY(n) == [j \in 1..n |-> (j - 1) % 2]

\* raw label vectors handed to the adapter
RawYs == {y \in SeqsUpTo(0..MaxLabel, MaxSamples) : Len(y) >= 1}

NoFail == <<"none", 0>>

\* the places where a collaborator can raise under the configuration
FailPoints ==
    {NoFail} \cup
    (IF params.cv = Prefit THEN {"proba", "cal_fit"} \X {1}
     ELSE {"split", "clf_fit", "proba", "cal_fit"} \X (1..params.cv))

\* ------------------------------------------------------- specification
Init ==
    /\ params \in [cv : {Prefit} \cup (2..MaxFolds),
                   base : {"classifier", "regressor"},
                   calibration : {"kde", "histogram", "template"}]
    /\ has_ensemble = FALSE
    /\ classifiers_ = <<>>
    /\ calibrators_ = <<>>
    /\ XY = [mode |-> "none", X |-> <<>>, y |-> <<>>, n_samples |-> 0]
    /\ folds = <<>>
    /\ wrap = [classes_ |-> <<>>, regressor_ |-> 0]
    /\ last = NoCall

DirectArgs == {"X", "y"}
GenerativeArgs == {"numerator", "denominator", "n_samples"}

\* fit(X, y)
FitDirect ==
    \E yv \in DirectYs, fail \in FailPoints : Fit(DirectArgs, yv, 0, fail)

\* fit(numerator=..., denominator=..., n_samples=n)
FitGenerative ==
    \E n \in 2..MaxSamples, fail \in FailPoints : Fit(GenerativeArgs, <<>>, n, fail)

\* fit() with no argument given
FitIncomplete == Fit({}, <<>>, 0, NoFail)

\* the table in which every calibrator gives density 2^0
FlatDens(k) == [i \in 1..k |-> <<0, 0>>]

Predict ==
    \E log \in BOOLEAN : PredictCall(log, FlatDens(Len(classifiers_)))

Score == ScoreCall

Next == FitDirect \/ FitGenerative \/ FitIncomplete \/ Predict \/ Score

Spec == Init /\ [][Next]_vars

WrapperFit == \E y \in RawYs, regfail \in BOOLEAN : WrapFitCall(y, regfail)

WrapperPredictProba == WrapPredictProbaCall

NextWrap == WrapperFit \/ WrapperPredictProba

\* the adapter on its own, beside an estimator of the default configuration
InitWrap ==
    /\ Init
    /\ params = [cv |-> MaxFolds, base |-> "regressor", calibration |-> "histogram"]

SpecWrap == InitWrap /\ [][NextWrap]_vars

\* fit with every combination of given and omitted arguments
FitAnyArgs ==
    \E has \in SUBSET ArgNames, n \in 2..MaxSamples :
        Fit(has, IF "y" \in has THEN AlternatingY(n) ELSE <<>>,
            IF "n_samples" \in has THEN n ELSE 0, NoFail)

NextArgs == FitAnyArgs \/ Score

SpecArgs == Init /\ [][NextArgs]_vars

\* predict over every table of calibrator densities
FitAlternating ==
    \E n \in 2..MaxSamples : Fit(DirectArgs, AlternatingY(n), 0, NoFail)

PredictAny ==
    \E log \in BOOLEAN, dens \in DensTables(Len(classifiers_)) : PredictCall(log, dens)

NextPredict == FitAlternating \/ PredictAny

InitPredict == Init /\ params.base = "classifier"

SpecPredict == InitPredict /\ [][NextPredict]_vars

\* ------------------------------------------------------------- claims
EntriesExpected == IF params.cv = Prefit THEN 1 ELSE params.cv

FullyPopulated ==
    /\ has_ensemble
    /\ Len(classifiers_) = EntriesExpected
    /\ Len(calibrators_) = EntriesExpected

EnsembleUnchanged ==
    /\ has_ensemble' = has_ensemble
    /\ classifiers_' = classifiers_
    /\ calibrators_' = calibrators_

\* C1: every fit call either returns with the ensemble fully populated or
\* raises and leaves classifiers_ / calibrators_ exactly as they were.
C1_FitAllOrNothing ==
    [][last'.op = "fit" =>
         IF last'.err = "none" THEN FullyPopulated' ELSE EnsembleUnchanged]_vars

\* C2: in generative mode X and y both have n_samples rows, the first
\* n_samples // 2 drawn from numerator and labelled 0, the remaining
\* n_samples - n_samples // 2 drawn from denominator and labelled 1.
C2_GenerativeSample ==
    XY.mode = "generative" =>
        LET n == XY.n_samples IN
        /\ Len(XY.X) = n
        /\ Len(XY.y) = n
        /\ \A j \in 1..Len(XY.X) :
              XY.X[j] = IF j <= n \div 2 THEN "numerator" ELSE "denominator"
        /\ \A j \in 1..Len(XY.y) : XY.y[j] = IF j <= n \div 2 THEN 0 ELSE 1

\* C3: after every fit call that returns, classifiers_ and calibrators_ have
\* the same length: 1 when cv is "prefit", the number of folds the splitter
\* yielded otherwise; entries of earlier fit calls are not counted in.
C3_EnsembleSize ==
    (last.op = "fit" /\ last.err = "none") =>
        /\ Len(classifiers_) = Len(calibrators_)
        /\ params.cv = Prefit => Len(classifiers_) = 1
        /\ params.cv # Prefit =>
              Len(classifiers_) = Len(folds) /\ Len(folds) = params.cv

C3_Witness ==
    /\ last.op = "fit" /\ last.err = "none"
    /\ params.cv # Prefit
    /\ Len(classifiers_) = MaxFolds

\* C4: in cross-validated mode entry i's classifier was fitted on exactly
\* train_i, its calibrator_num on the label-0 rows of calibrate_i and its
\* calibrator_den on the label-1 rows of calibrate_i, and no row served both
\* to train entry i's classifier and to fit one of its calibrators.
C4_AntiOverfit ==
    (has_ensemble /\ params.cv # Prefit) =>
        \A i \in 1..Len(classifiers_) :
            (folds[i].train \cap folds[i].calibrate = {}) =>
                /\ classifiers_[i].trainedOn = folds[i].train
                /\ calibrators_[i][1].fitOn =
                       {j \in folds[i].calibrate : XY.y[j] = 0}
                /\ calibrators_[i][2].fitOn =
                       {j \in folds[i].calibrate : XY.y[j] = 1}
                /\ classifiers_[i].trainedOn
                       \cap (calibrators_[i][1].fitOn \cup calibrators_[i][2].fitOn) = {}

C4_Witness ==
    /\ has_ensemble /\ params.cv # Prefit
    /\ last.op = "fit" /\ last.err = "none"
    /\ \E i \in 1..Len(classifiers_) :
          /\ calibrators_[i][1].fitOn # {}
          /\ calibrators_[i][2].fitOn # {}
          /\ classifiers_[i].trainedOn # {}

Populated == has_ensemble /\ Len(classifiers_) > 0

ArgsIncomplete(has) ==
    /\ "X" \notin has \/ "y" \notin has
    /\ "numerator" \notin has \/ "denominator" \notin has \/ "n_samples" \notin has

\* C6: fit raises the argument-combination ValueError exactly when neither
\* input mode is complete, and then nothing was drawn, made or fitted and
\* classifiers_ / calibrators_ are neither created nor changed.
C6_ArgumentError ==
    [][last'.op = "fit" =>
         /\ ArgsIncomplete(last'.has) <=>
               (last'.err = "ValueError" /\ last'.at = "args")
         /\ ArgsIncomplete(last'.has) =>
               /\ EnsembleUnchanged
               /\ XY' = XY /\ folds' = folds
               /\ last'.made = 0 /\ last'.fitted = {}]_vars

C6_Witness ==
    /\ last.op = "fit" /\ last.err = "ValueError" /\ last.at = "args"
    /\ "X" \in last.has /\ "numerator" \in last.has
    /\ Populated

\* C7: predict returns a value only in the fit state, in which both lists
\* are populated with the same nonzero number of entries; otherwise it raises.
C7_PredictOnlyWhenFit ==
    (last.op = "predict" /\ last.err = "none") =>
        /\ has_ensemble
        /\ Len(classifiers_) = Len(calibrators_)
        /\ Len(classifiers_) > 0

\* exp2(lg) = v for rationals lg = <<s, k>>, v = <<n, m>>: 2^s * m^k = n^k
ExpAgrees(lg, v) ==
    IF lg[1] >= 0 THEN Pow2(lg[1]) * Pow(v[2], lg[2]) = Pow(v[1], lg[2])
    ELSE Pow(v[2], lg[2]) = Pow2(-lg[1]) * Pow(v[1], lg[2])

\* C8 as stated: for a fitted ensemble of any size and any calibrator
\* densities, exp(predict(x, log=True)) = predict(x, log=False).
C8_LogAgrees ==
    Populated =>
        \A dens \in DensTables(Len(classifiers_)) :
            ExpAgrees(PredictValue(classifiers_, calibrators_, TRUE, dens),
                      PredictValue(classifiers_, calibrators_, FALSE, dens))

SameRatio(dens) ==
    \A i, j \in DOMAIN dens : dens[i][1] - dens[i][2] = dens[j][1] - dens[j][2]

\* C8 as amended: exp(predict(x, log=True)) = predict(x, log=False) for an
\* ensemble of one entry, and for a larger one when all its entries give
\* the same ratio at x.
C8_LogAgreesSingle ==
    Populated =>
        \A dens \in DensTables(Len(classifiers_)) :
            (Len(classifiers_) = 1 \/ SameRatio(dens)) =>
                ExpAgrees(PredictValue(classifiers_, calibrators_, TRUE, dens),
                          PredictValue(classifiers_, calibrators_, FALSE, dens))

C8_Witness ==
    /\ Len(classifiers_) = 1
    /\ last.op = "predict" /\ last.err = "none" /\ last.log
    /\ last.value = <<-1, 1>>

\* C9: WrapAsClassifier.fit raises the cardinality ValueError whenever y has
\* other than two distinct labels, before anything is cloned or fitted and
\* with classes_ / regressor_ left as they were; with exactly two labels it
\* does not raise it and classes_ holds the two labels in ascending order.
C9_CardinalityError ==
    [][last'.op = "wrap.fit" =>
         LET labels == last'.labels IN
         /\ Cardinality(labels) # 2 =>
               /\ last'.err = "ValueError" /\ last'.at = "cardinality"
               /\ wrap' = wrap
               /\ last'.made = 0 /\ last'.fitted = {}
         /\ Cardinality(labels) = 2 =>
               /\ last'.at # "cardinality"
               /\ wrap'.classes_ = <<Min(labels), Max(labels)>>]_vars

C9_Witness ==
    /\ last.op = "wrap.fit" /\ last.err = "ValueError" /\ last.at = "cardinality"
    /\ Cardinality(last.labels) >= 3
    /\ wrap.regressor_ # 0

CalibratorIds == {calibrators_[i][j].id : i \in 1..Len(calibrators_), j \in 1..2}

\* C10: fit never calls fit on the configured base model or calibration
\* template; in cross-validated mode every entry's classifier is a clone
\* distinct from the base model and from every other entry's, and all
\* calibrators are distinct fresh objects; in prefit mode the entry's
\* classifier is the caller's own object, never fitted by fit.
C10_NoSharedModels ==
    /\ last.op = "fit" => (BaseId \notin last.fitted /\ TemplateId \notin last.fitted)
    /\ has_ensemble =>
          /\ Cardinality(CalibratorIds) = 2 * Len(calibrators_)
          /\ CalibratorIds \cap {BaseId, TemplateId} = {}
          /\ \A i \in 1..Len(classifiers_) :
                /\ classifiers_[i].id \notin CalibratorIds
                /\ classifiers_[i].regressor_ # BaseId
                /\ IF params.cv = Prefit
                   THEN /\ classifiers_[i].id = BaseId
                        /\ classifiers_[i].trainedOn = {}
                   ELSE /\ classifiers_[i].id \notin {BaseId, TemplateId}
                        /\ classifiers_[i].regressor # BaseId
                        /\ \A j \in 1..Len(classifiers_) :
                              i # j => classifiers_[i].id # classifiers_[j].id

C10_Witness ==
    /\ last.op = "fit" /\ last.err = "none"
    /\ params.cv # Prefit /\ params.calibration = "template"
    /\ Len(classifiers_) = MaxFolds

====
